---- MODULE Spec2Model ----
(***************************************************************************)
(* Model of radar_script.py: list the remote keys of one station and day,  *)
(* keep the latest five, fetch / decode / render / save each one as a PNG  *)
(* frame, then open the frames, bring them to one size and save them as a  *)
(* looping GIF.                                                            *)
(*                                                                         *)
(* A key is a sequence of characters; a character is a small integer whose *)
(* order is the code-point order ('/' sorts before every letter, digit and *)
(* underscore).  A frame file is the scan it shows and its pixel size.     *)
(* Library calls (requests, pyart, matplotlib, PIL) are modelled by their  *)
(* documented effect on the script's variables and on the two outputs.     *)
(***************************************************************************)
EXTENDS Integers, Sequences, FiniteSets

VARIABLES pc, err, r, keys, nmatch, i, radar, fig, png_files, j, images,
          base_size, disk, gif

vars == <<pc, err, r, keys, nmatch, i, radar, fig, png_files, j, images,
          base_size, disk, gif>>

-----------------------------------------------------------------------------
(* Bounds of the model *)

\* longest listing the remote service answers with
MaxListing == 6

-----------------------------------------------------------------------------
(* Program constants *)

Slash == 0
FOLDER == "nexrad"
\* f"{STATION}_{utc_date}", two characters long here
Prefix == <<1, 2>>
\* the 5 of sorted(keys)[-5:]
Latest == 5
\* duration=800
Duration == 800
\* loop=0
Loop == 0

-----------------------------------------------------------------------------
(* Inputs *)

\* keys the listing may contain: two flat keys, two keys with a '/' that share
\* their last component, and a key that does not start with the prefix
KA == <<1, 2, 1>>
KB == <<1, 2, 2>>
KC == <<1, 2, 0, 1>>
KD == <<1, 2, 1, 0, 1>>
KN == <<2, 1, 2>>
KeyPool == {KA, KB, KC, KD, KN}

RECURSIVE SeqsUpTo(_, _)
SeqsUpTo(S, n) ==
    IF n = 0 THEN {<<>>}
    ELSE LET prev == SeqsUpTo(S, n - 1)
         IN  prev \cup {Append(s, x) : s \in {t \in prev : Len(t) = n - 1}, x \in S}

Listings == SeqsUpTo(KeyPool, MaxListing)

\* pixel sizes savefig(bbox_inches='tight') may produce
Sizes == {<<8, 8>>, <<7, 8>>}
NoSize == <<0, 0>>

-----------------------------------------------------------------------------
(* Pure helpers *)

Max(S) == CHOOSE x \in S : \A y \in S : y <= x

\* k.text.startswith(prefix)
startswith(k, p) == Len(k) >= Len(p) /\ SubSeq(k, 1, Len(p)) = p

\* str <= str: lexicographic by code point, a proper prefix is smaller
RECURSIVE LexLeq(_, _)
LexLeq(a, b) ==
    IF a = <<>> THEN TRUE
    ELSE IF b = <<>> THEN FALSE
    ELSE IF Head(a) < Head(b) THEN TRUE
    ELSE IF Head(a) > Head(b) THEN FALSE
    ELSE LexLeq(Tail(a), Tail(b))

RECURSIVE Insert(_, _)
Insert(x, s) ==
    IF s = <<>> THEN <<x>>
    ELSE IF LexLeq(Head(s), x) THEN <<Head(s)>> \o Insert(x, Tail(s))
    ELSE <<x>> \o s

\* sorted(keys)
RECURSIVE sorted(_)
sorted(s) == IF s = <<>> THEN <<>> ELSE Insert(s[Len(s)], sorted(SubSeq(s, 1, Len(s) - 1)))

\* s[-n:]
LastN(s, n) == IF Len(s) <= n THEN s ELSE SubSeq(s, Len(s) - n + 1, Len(s))

\* [k.text for k in soup.find_all("key") if k.text.startswith(...)]
RECURSIVE Matching(_)
Matching(l) ==
    IF l = <<>> THEN <<>>
    ELSE IF startswith(Head(l), Prefix) THEN <<Head(l)>> \o Matching(Tail(l))
    ELSE Matching(Tail(l))

\* slip: the head of the sorted list instead of its tail
SelectOldest(ks) == SubSeq(sorted(ks), 1, IF Len(ks) <= Latest THEN Len(ks) ELSE Latest)

\* sorted(keys)[-5:]
SelectLatest(ks) == LastN(sorted(ks), Latest)

\* key.split('/')[-1]
Basename(k) ==
    LET slashes == {p \in 1..Len(k) : k[p] = Slash}
    IN  IF slashes = {} THEN k ELSE SubSeq(k, Max(slashes) + 1, Len(k))

\* slip: the key is left out of the file name
OutPngFixed(k) == [folder |-> FOLDER, base |-> <<>>, suffix |-> "_mercator.png"]

\* os.path.join(FOLDER, key.split('/')[-1] + "_mercator.png")
OutPng(k) == [folder |-> FOLDER, base |-> Basename(k), suffix |-> "_mercator.png"]

\* png_files[::-1]
RECURSIVE Reversed(_)
Reversed(s) == IF s = <<>> THEN <<>> ELSE Append(Reversed(Tail(s)), Head(s))

Paths == {OutPng(k) : k \in KeyPool}

NoFile == [scan |-> <<>>, size |-> NoSize]

\* Image.open(filename)
ImageOpen(d, filename) == d[filename]

\* slip: the frame keeps its own size
ResizeKeepsSize(img, size) == img

\* img.resize(base_size, Image.BILINEAR)
Resize(img, size) == [img EXCEPT !.size = size]

NoGif == [exists |-> FALSE, frames |-> <<>>, duration |-> 0, loop |-> 0]

\* slip: append_images starts one frame too late
SaveGifSkipsSecond(old, imgs) ==
    [exists |-> TRUE, frames |-> <<imgs[1]>> \o SubSeq(imgs, 3, Len(imgs)),
     duration |-> Duration, loop |-> Loop]

\* slip: the frames are appended to the animation already in the file
SaveGifAppends(old, imgs) ==
    [exists |-> TRUE, frames |-> old.frames \o imgs, duration |-> Duration, loop |-> Loop]

\* images[0].save(GIF_FILENAME, save_all=True, append_images=images[1:],
\*                duration=800, loop=0): the file is rewritten from scratch
SaveGif(old, imgs) ==
    [exists |-> TRUE, frames |-> <<imgs[1]>> \o Tail(imgs),
     duration |-> Duration, loop |-> Loop]

\* animations an earlier run may have left at GIF_FILENAME
PriorFrames == { <<[scan |-> KA, size |-> <<8, 8>>]>>,
                 <<[scan |-> KA, size |-> <<8, 8>>], [scan |-> KC, size |-> <<8, 8>>]>> }
PriorGifs == {NoGif} \cup {SaveGif(NoGif, fs) : fs \in PriorFrames}

NoResponse == [kind |-> "none", body |-> <<>>]

-----------------------------------------------------------------------------
(* The run *)

Init ==
    /\ pc = "list"
    /\ err = "none"
    /\ r = NoResponse
    /\ keys = <<>>
    /\ nmatch = 0
    /\ i = 0
    /\ radar = <<>>
    /\ fig = <<>>
    /\ png_files = <<>>
    /\ j = 0
    /\ images = <<>>
    /\ base_size = NoSize
    /\ disk = [p \in Paths |-> NoFile]
    /\ gif \in PriorGifs

\* an uncaught exception: the interpreter exits
Raise(step) ==
    /\ pc' = "failed"
    /\ err' = step
    /\ UNCHANGED <<r, keys, nmatch, i, radar, fig, png_files, j, images, base_size, disk, gif>>

\* r = requests.get(index_url); r.raise_for_status()
Listing ==
    /\ pc = "list"
    /\ \E l \in Listings : r' = [kind |-> "listing", body |-> l]
    /\ pc' = "select"
    /\ UNCHANGED <<err, keys, nmatch, i, radar, fig, png_files, j, images, base_size, disk, gif>>

ListingFail ==
    /\ pc = "list"
    /\ Raise("list")

\* keys = [...]; keys = sorted(keys)[-5:]; png_files = []; for key in keys:
SelectKeys ==
    /\ pc = "select"
    /\ nmatch' = Len(Matching(r.body))
    /\ keys' = SelectLatest(Matching(r.body))
    /\ png_files' = <<>>
    /\ i' = 1
    /\ pc' = IF keys' = <<>> THEN "reverse" ELSE "fetch"
    /\ UNCHANGED <<err, r, radar, fig, j, images, base_size, disk, gif>>

\* r = requests.get(file_url); r.raise_for_status()
Fetch ==
    /\ pc = "fetch"
    /\ r' = [kind |-> "file", body |-> <<keys[i]>>]
    /\ pc' = "decode"
    /\ UNCHANGED <<err, keys, nmatch, i, radar, fig, png_files, j, images, base_size, disk, gif>>

FetchFail ==
    /\ pc = "fetch"
    /\ Raise("fetch")

\* radar = pyart.io.read_nexrad_level3(BytesIO(r.content))
Decode ==
    /\ pc = "decode"
    /\ radar' = r.body[1]
    /\ pc' = "render"
    /\ UNCHANGED <<err, r, keys, nmatch, i, fig, png_files, j, images, base_size, disk, gif>>

DecodeFail ==
    /\ pc = "decode"
    /\ Raise("decode")

\* plt.subplots ... display.plot_ppi_map ... ax.text
Render ==
    /\ pc = "render"
    /\ fig' = radar
    /\ pc' = "save"
    /\ UNCHANGED <<err, r, keys, nmatch, i, radar, png_files, j, images, base_size, disk, gif>>

\* slip: the error is swallowed and the loop goes on with the next key
RenderFailSkipsKey ==
    /\ pc = "render"
    /\ err' = "render"
    /\ i' = i + 1
    /\ pc' = IF i = Len(keys) THEN "reverse" ELSE "fetch"
    /\ UNCHANGED <<r, keys, nmatch, radar, fig, png_files, j, images, base_size, disk, gif>>

RenderFail ==
    /\ pc = "render"
    /\ Raise("render")

\* slip: the loop is left after the first frame
SavePngLeavesLoop ==
    /\ pc = "save"
    /\ \E sz \in Sizes :
          disk' = [disk EXCEPT ![OutPng(keys[i])] = [scan |-> fig, size |-> sz]]
    /\ png_files' = Append(png_files, OutPng(keys[i]))
    /\ i' = i + 1
    /\ pc' = "reverse"
    /\ UNCHANGED <<err, r, keys, nmatch, radar, fig, j, images, base_size, gif>>

\* out_png = ...; plt.savefig(out_png, dpi=150, bbox_inches='tight');
\* plt.close(); png_files.append(out_png); next key or leave the loop
SavePng ==
    /\ pc = "save"
    /\ \E sz \in Sizes :
          disk' = [disk EXCEPT ![OutPng(keys[i])] = [scan |-> fig, size |-> sz]]
    /\ png_files' = Append(png_files, OutPng(keys[i]))
    /\ i' = i + 1
    /\ pc' = IF i = Len(keys) THEN "reverse" ELSE "fetch"
    /\ UNCHANGED <<err, r, keys, nmatch, radar, fig, j, images, base_size, gif>>

\* slip: the file is written before the error is raised
SavePngFailAfterWrite ==
    /\ pc = "save"
    /\ \E sz \in Sizes :
          disk' = [disk EXCEPT ![OutPng(keys[i])] = [scan |-> fig, size |-> sz]]
    /\ pc' = "failed"
    /\ err' = "save"
    /\ UNCHANGED <<r, keys, nmatch, i, radar, fig, png_files, j, images, base_size, gif>>

\* savefig raises while it draws the figure, before it opens out_png
SavePngFail ==
    /\ pc = "save"
    /\ Raise("save")

\* png_files = png_files[::-1]; images = []; base_size = None; for filename in png_files:
Reverse ==
    /\ pc = "reverse"
    /\ png_files' = Reversed(png_files)
    /\ images' = <<>>
    /\ base_size' = NoSize
    /\ j' = 1
    /\ pc' = IF png_files = <<>> THEN "gifsave" ELSE "open"
    /\ UNCHANGED <<err, r, keys, nmatch, i, radar, fig, disk, gif>>

\* img = Image.open(filename); first frame fixes base_size, later ones are
\* resized to it; images.append(img)
OpenFrame ==
    /\ pc = "open"
    /\ LET img == ImageOpen(disk, png_files[j])
       IN  IF base_size = NoSize
           THEN /\ base_size' = img.size
                /\ images' = Append(images, img)
           ELSE /\ base_size' = base_size
                /\ images' = Append(images, Resize(img, base_size))
    /\ j' = j + 1
    /\ pc' = IF j = Len(png_files) THEN "gifsave" ELSE "open"
    /\ UNCHANGED <<err, r, keys, nmatch, i, radar, fig, png_files, disk, gif>>

\* images[0].save(GIF_FILENAME, ...)
GifSave ==
    /\ pc = "gifsave"
    /\ images # <<>>
    /\ gif' = SaveGif(gif, images)
    /\ pc' = "done"
    /\ UNCHANGED <<err, r, keys, nmatch, i, radar, fig, png_files, j, images, base_size, disk>>

\* slip: an empty animation is written
GifSaveEmptyWrites ==
    /\ pc = "gifsave"
    /\ images = <<>>
    /\ gif' = [exists |-> TRUE, frames |-> <<>>, duration |-> Duration, loop |-> Loop]
    /\ pc' = "done"
    /\ UNCHANGED <<err, r, keys, nmatch, i, radar, fig, png_files, j, images, base_size, disk>>

\* images[0] on an empty list: IndexError
GifSaveEmpty ==
    /\ pc = "gifsave"
    /\ images = <<>>
    /\ Raise("assemble")

Next ==
    \/ Listing
    \/ ListingFail
    \/ SelectKeys
    \/ Fetch
    \/ FetchFail
    \/ Decode
    \/ DecodeFail
    \/ Render
    \/ RenderFail
    \/ SavePng
    \/ SavePngFail
    \/ Reverse
    \/ OpenFrame
    \/ GifSave
    \/ GifSaveEmpty

Spec == Init /\ [][Next]_vars

-----------------------------------------------------------------------------
(* Vocabulary of the properties *)

Min(a, b) == IF a <= b THEN a ELSE b

Ascending(s) == \A a, b \in 1..Len(s) : a < b => LexLeq(s[a], s[b])

NoRepeat(s) == \A a, b \in 1..Len(s) : a # b => s[a] # s[b]

Count(s, x) == Cardinality({n \in 1..Len(s) : s[n] = x})

\* positions of the listing whose key starts with the prefix
MatchingPositions(l) == {n \in 1..Len(l) : startswith(l[n], Prefix)}

InKeyLoop == pc \in {"fetch", "decode", "render", "save"}
Assembling == pc \in {"open", "gifsave", "done"}
KeyFailure == pc = "failed" /\ err \in {"fetch", "decode", "render", "save"}

\* files of FOLDER that exist
Written == {p \in Paths : disk[p] # NoFile}

DistinctBasenames == \A a, b \in 1..Len(keys) : a # b => Basename(keys[a]) # Basename(keys[b])

\* the animation at GIF_FILENAME was assembled from the frames now in images
PriorFromSameFrames ==
    /\ gif.exists
    /\ Len(gif.frames) = Len(images)
    /\ \A n \in 1..Len(images) : gif.frames[n].scan = images[n].scan
    /\ gif.frames[1].size = images[1].size

-----------------------------------------------------------------------------
(* C1 *)

\* C1: in a successful run the frames of the animation are in chronological
\* order: for positions a < b the scan key of frame a is <= that of frame b.
C1_FramesAscending ==
    pc = "done" => \A a, b \in 1..Len(gif.frames) :
                      a < b => LexLeq(gif.frames[a].scan, gif.frames[b].scan)

-----------------------------------------------------------------------------
(* C2 *)

-----------------------------------------------------------------------------
(* C3 *)

\* C3: every frame opened, and every frame of the animation, has the pixel
\* size of the first file of the sequence the assembly loop iterates; the
\* canonical size, once set, never changes; a frame of another size is
\* resized and the run still succeeds.
C3_AllFramesCanonical ==
    /\ [](Assembling =>
            /\ \A n \in 1..Len(images) : images[n].size = disk[png_files[1]].size
            /\ (images # <<>> => base_size = disk[png_files[1]].size)
            /\ (pc = "done" => \A n \in 1..Len(gif.frames) :
                                  gif.frames[n].size = disk[png_files[1]].size))
    /\ [][base_size # NoSize => base_size' = base_size]_vars

C3_Witness ==
    /\ pc = "done"
    /\ \E n \in 1..Len(png_files) : disk[png_files[n]].size # disk[png_files[1]].size
    /\ \A n \in 1..Len(gif.frames) : gif.frames[n].size = base_size

-----------------------------------------------------------------------------
(* C4 *)

\* C4: with an empty frame sequence the save step raises and the animation
\* file is left as it was (absent stays absent, present stays unchanged);
\* a run never succeeds with no frames.
C4_EmptySequenceFails ==
    /\ [](pc = "done" => png_files # <<>>)
    /\ [][(pc = "gifsave" /\ png_files = <<>>) =>
             (pc' = "failed" /\ err' = "assemble" /\ gif' = gif)]_vars
    /\ [][(pc = "reverse" /\ png_files = <<>>) => (pc' = "gifsave" /\ gif' = gif)]_vars

C4_Witness ==
    /\ pc = "failed"
    /\ err = "assemble"
    /\ r.kind = "listing"
    /\ r.body # <<>>
    /\ gif.exists

-----------------------------------------------------------------------------
(* C5 *)

\* C5: a failure of the listing or of the fetch, decode or render of a key
\* ends the run at once: nothing runs after the failure, the failing step
\* changes neither the frames on disk nor the frame list, and the animation
\* file is written only by the step that completes a successful run.
C5_FailureIsFatal ==
    /\ [](err # "none" => pc = "failed")
    /\ [][pc # "failed" /\ pc # "done"]_vars
    /\ [][pc' = "failed" => (disk' = disk /\ gif' = gif /\ png_files' = png_files)]_vars
    /\ [][gif' # gif => pc' = "done"]_vars

C5_Witness ==
    /\ pc = "failed"
    /\ err = "render"
    /\ i = 3
    /\ Len(keys) = Latest
    /\ Cardinality(Written) = 2
    /\ gif \in PriorGifs

-----------------------------------------------------------------------------
(* C6 *)

\* C6: right after the selection, the selected keys are ascending, all start
\* with the prefix, are min(5, number of matching entries) many, are taken
\* from the listing with its multiplicities, and every matching entry left
\* out is <= every selected key.
C6_SelectsLatestFive ==
    (r.kind = "listing" /\ pc \in {"fetch", "reverse"}) =>
        /\ Ascending(keys)
        /\ \A n \in 1..Len(keys) : startswith(keys[n], Prefix)
        /\ Len(keys) = Min(Latest, Cardinality(MatchingPositions(r.body)))
        /\ \A n \in 1..Len(keys) : Count(keys, keys[n]) <= Count(r.body, keys[n])
        /\ \A n \in MatchingPositions(r.body) :
              Count(keys, r.body[n]) < Count(r.body, r.body[n])
                 => \A m \in 1..Len(keys) : LexLeq(r.body[n], keys[m])

C6_Witness ==
    /\ r.kind = "listing"
    /\ pc = "fetch"
    /\ Cardinality(MatchingPositions(r.body)) > Latest
    /\ ~Ascending(r.body)
    /\ \E n \in MatchingPositions(r.body) : Count(keys, r.body[n]) = 0

\* fewer matching entries than five: all of them are selected
C6_WitnessUnder ==
    /\ r.kind = "listing"
    /\ pc = "fetch"
    /\ Cardinality(MatchingPositions(r.body)) = 3
    /\ \E n \in 1..Len(r.body) : ~startswith(r.body[n], Prefix)
    /\ Len(keys) = 3

-----------------------------------------------------------------------------
(* C7 *)

\* C7: the save rewrites the animation from the frames in memory alone: the
\* new file has exactly those frames, 800 ms each, loop 0; when the file
\* already held an animation assembled from the same frames, the new one
\* has the same frame count, duration, loop setting and frame sizes.
C7_SecondAssemblyReplaces ==
    [][(pc = "gifsave" /\ pc' = "done") =>
          /\ gif'.frames = images
          /\ gif'.duration = Duration
          /\ gif'.loop = Loop
          /\ (PriorFromSameFrames =>
                /\ Len(gif'.frames) = Len(gif.frames)
                /\ gif'.duration = gif.duration
                /\ gif'.loop = gif.loop
                /\ \A n \in 1..Len(gif.frames) : gif'.frames[n].size = gif.frames[n].size)]_vars

C7_Witness ==
    /\ pc = "gifsave"
    /\ Len(images) = 2
    /\ PriorFromSameFrames

-----------------------------------------------------------------------------
(* C8 *)

\* C8: the steps run one after the other: no fetch before the selection is
\* done; while key i is fetched, decoded, rendered or saved, exactly the
\* frames of keys 1..i-1 have been saved and the step works on key i; the
\* assembly starts only when every selected key has its frame saved.
C8_StrictSequence ==
    /\ [](pc \in {"list", "select"} => (png_files = <<>> /\ r.kind # "file"))
    /\ [](InKeyLoop => (i \in 1..Len(keys) /\ Len(png_files) = i - 1))
    /\ [](pc \in {"decode", "render", "save"} => r = [kind |-> "file", body |-> <<keys[i]>>])
    /\ [](pc \in {"render", "save"} => radar = keys[i])
    /\ [](pc = "save" => fig = keys[i])
    /\ [](pc \in {"reverse", "open", "gifsave", "done"} =>
             (Len(png_files) = Len(keys) /\ i = Len(keys) + 1))
    /\ [][pc' = "fetch" => pc \in {"select", "save"}]_vars
    /\ [][pc' = "decode" => pc = "fetch"]_vars
    /\ [][pc' = "render" => pc = "decode"]_vars
    /\ [][pc' = "save" => pc = "render"]_vars
    /\ [][pc' = "reverse" => pc \in {"select", "save"}]_vars

C8_Witness ==
    /\ pc = "fetch"
    /\ i = 3
    /\ Len(keys) = Latest
    /\ Len(png_files) = 2

-----------------------------------------------------------------------------
(* C9 *)

\* C9 as stated: in a successful run every frame file is written exactly
\* once, and distinct selected keys have distinct frame paths.
C9_EachFrameWrittenOnce ==
    pc = "done" =>
        /\ NoRepeat(png_files)
        /\ \A a, b \in 1..Len(keys) : keys[a] # keys[b] => OutPng(keys[a]) # OutPng(keys[b])

\* C9 amended: in a successful run whose selected keys have pairwise distinct
\* basenames, every frame file is written exactly once and opened exactly
\* once, still shows the scan of its own key when it is opened, and every
\* file the assembly opens has been written before.
C9_WrittenOnceIfBasenamesDistinct ==
    /\ Assembling => \A n \in 1..Len(png_files) : png_files[n] \in Written
    /\ (pc = "done" /\ DistinctBasenames) =>
          /\ NoRepeat(png_files)
          /\ Len(images) = Len(png_files)
          /\ NoRepeat([n \in 1..Len(images) |-> images[n].scan])
          /\ \A n \in 1..Len(keys) : disk[OutPng(keys[n])].scan = keys[n]
          /\ Cardinality(Written) = Len(keys)

C9_Witness ==
    /\ pc = "done"
    /\ DistinctBasenames
    /\ Len(keys) = 3
    /\ \E n \in 1..Len(keys) : Basename(keys[n]) # keys[n]

-----------------------------------------------------------------------------
(* C10 *)

\* C10: when the run fails while it processes key k, the frame list is the
\* paths of keys 1..k-1 in that order, the files written are exactly those
\* paths, every file shows the scan of one of keys 1..k-1, and k-1 saves
\* have taken place.
C10_PartialFramesOnFailure ==
    KeyFailure =>
        /\ i \in 1..Len(keys)
        /\ png_files = [n \in 1..(i - 1) |-> OutPng(keys[n])]
        /\ Written = {OutPng(keys[n]) : n \in 1..(i - 1)}
        /\ \A p \in Written : \E n \in 1..(i - 1) : disk[p].scan = keys[n]
        /\ Ascending([n \in 1..(i - 1) |-> keys[n]])

C10_Witness ==
    /\ KeyFailure
    /\ i = 3
    /\ Len(keys) = Latest
    /\ keys[3] # keys[2]
    /\ Cardinality(Written) = 2
====
